---- MODULE Spec2Model ----
(***************************************************************************)
(* Model of the kontainer-engine aliyun driver (aliyun_driver.go).         *)
(*                                                                         *)
(* Three specifications share this module:                                 *)
(*   SpecEnv  - concurrent invocations of Driver.getServiceClient, the     *)
(*              EnvMutex lock and the credential environment variable;     *)
(*   SpecWait - the polling loops Driver.waitCluster / waitNodePool;       *)
(*   Spec     - the state codec (getStateFromOpts, storeState, getState),  *)
(*              generateClusterCreateRequest and the lifecycle operations  *)
(*              Update and Remove.                                         *)
(* Each specification leaves the variables of the other two untouched.     *)
(* SpecEnvFair and SpecWaitFair are SpecEnv and SpecWait with the fairness *)
(* that progress properties need.                                          *)
(***************************************************************************)
EXTENDS Integers, Sequences, FiniteSets, TLC

VARIABLES
    \* ---- getServiceClient (SpecEnv) ----
    rec,          \* rec[p]: the state record passed to invocation p
    pc,           \* pc[p]: position of invocation p inside getServiceClient
    locked,       \* locked[p]: the local variable `locked`
    setEnv,       \* setEnv[p]: the local variable `setEnv`
    file,         \* file[p]: name of the temp file created by p, or NoFile
    holder,       \* EnvMutex: 0 when free, else the invocation holding it
    env,          \* value of GOOGLE_APPLICATION_CREDENTIALS, or Unset
    files,        \* temp files that currently exist
    lockCount,    \* lockCount[p]: number of EnvMutex.Lock() calls made by p
    unlockCount,  \* unlockCount[p]: number of EnvMutex.Unlock() calls made by p
    tsEnv,        \* tsEnv[p]: env as seen by p's google.DefaultTokenSource call
    unguarded,    \* unguarded[p]: p wrote env while not holding EnvMutex
    result,       \* result[p]: how invocation p returned
    after         \* after[p]: the invocation whose return p's caller waits
                  \* for before it calls (updateAndWait), or 0

envVars == <<rec, pc, locked, setEnv, file, holder, env, files,
             lockCount, unlockCount, tsEnv, unguarded, result, after>>

\* ---- waitCluster / waitNodePool (SpecWait) ----
VARIABLES
    wkind,        \* which loop runs: "cluster" (waitCluster) or "nodepool"
    wpc,          \* position in the loop: "fetch", "sleep", "done" ("idle")
    lastMsg,      \* the local variable lastMsg
    polled,       \* history: outcome of every fetch issued so far, in order
    emitted,      \* history: emitted[i] is what the i-th iteration logged
    slept,        \* total seconds spent in time.Sleep
    wresult       \* the value returned by the loop

waitVars == <<wkind, wpc, lastMsg, polled, emitted, slept, wresult>>

\* ---- state codec and lifecycle operations (Spec) ----
VARIABLES
    opts,         \* the *types.DriverOptions handed to the driver
    info,         \* the *types.ClusterInfo handed to the driver
    provider,     \* what the provider would answer if it were called
    decoded,      \* getStateFromOpts(opts) has run
    st,           \* the state it returned
    stErr,        \* the error it returned ("" is nil)
    stored,       \* storeState(info, st) has run
    restoredFrom, \* which info getState last read: "none", "initial", "stored"
    restored,     \* the state getState returned
    restoredErr,  \* the error getState returned ("" is nil)
    lastOp,       \* the last lifecycle operation run and what it returned
    request       \* the create request built from the decoded state

drvVars == <<opts, info, provider, decoded, st, stErr, stored, restoredFrom,
             restored, restoredErr, lastOp, request>>

vars == <<envVars, waitVars, drvVars>>

(***************************************************************************)
(* Bounds                                                                  *)
(***************************************************************************)
NumCalls == 2      \* concurrent getServiceClient invocations
MaxPolls == 4      \* fetches issued by one run of a wait loop

(***************************************************************************)
(* getServiceClient                                                        *)
(***************************************************************************)
Procs == 1..NumCalls

defaultCredentialEnv == "GOOGLE_APPLICATION_CREDENTIALS"
Unset == "<unset>"
NoFile == "<nofile>"
NotYet == "<not called>"

\* A credential path that only invocation p uses.
PathOf(p) == "/keys/key" \o ToString(p) \o ".json"
\* ioutil.TempFile("", "credential-file"): a fresh name, unique per call.
TempFile(p) == "/tmp/credential-file" \o ToString(p)

CredRecords(p) ==
    [CredentialPath : {"", PathOf(p)}, CredentialContent : {"", "{key}"}]

\* Who calls: each invocation is made either by a caller of its own, or by
\* updateAndWait as its second call, after the call it made through
\* getClusterStats (the invocation numbered one less) has returned.
Callers ==
    {a \in [Procs -> 0..NumCalls] :
        \A p \in Procs : a[p] = 0 \/ (a[p] = p - 1 /\ a[p] \in Procs)}

InitEnv ==
    /\ after \in Callers
    /\ rec \in {r \in [Procs -> UNION {CredRecords(p) : p \in Procs}] :
                   \A p \in Procs : IF after[p] = 0
                                     THEN r[p] \in CredRecords(p)
                                     ELSE r[p] = r[after[p]]}
    /\ pc = [p \in Procs |-> "start"]
    /\ locked = [p \in Procs |-> FALSE]
    /\ setEnv = [p \in Procs |-> FALSE]
    /\ file = [p \in Procs |-> NoFile]
    /\ holder = 0
    /\ env = Unset
    /\ files = {}
    /\ lockCount = [p \in Procs |-> 0]
    /\ unlockCount = [p \in Procs |-> 0]
    /\ tsEnv = [p \in Procs |-> NotYet]
    /\ unguarded = [p \in Procs |-> FALSE]
    /\ result = [p \in Procs |-> "running"]

IdleEnv ==
    /\ after = [p \in Procs |-> 0]
    /\ rec = [p \in Procs |-> [CredentialPath |-> "", CredentialContent |-> ""]]
    /\ pc = [p \in Procs |-> "idle"]
    /\ locked = [p \in Procs |-> FALSE]
    /\ setEnv = [p \in Procs |-> FALSE]
    /\ file = [p \in Procs |-> NoFile]
    /\ holder = 0
    /\ env = Unset
    /\ files = {}
    /\ lockCount = [p \in Procs |-> 0]
    /\ unlockCount = [p \in Procs |-> 0]
    /\ tsEnv = [p \in Procs |-> NotYet]
    /\ unguarded = [p \in Procs |-> FALSE]
    /\ result = [p \in Procs |-> "running"]

\* os.Setenv / os.Unsetenv by p: the new value, and whether p held EnvMutex.
WriteEnv(p, v) ==
    /\ env' = v
    /\ unguarded' = [unguarded EXCEPT ![p] = @ \/ holder # p]

\* `if setEnv { os.Unsetenv(...) }` inside cleanup.
ShouldUnsetenv(p) == setEnv[p]

\* `if locked { EnvMutex.Unlock(); locked = false }` inside cleanup.
ShouldUnlock_NoGuard(p) == TRUE
\* the unlock nested inside `if setEnv { ... }`
ShouldUnlock_OnlyIfSetEnv(p) == locked[p] /\ setEnv[p]
ShouldUnlock(p) == locked[p]

\* The closure `cleanup`, run by invocation p.
cleanup(p) ==
    /\ IF ShouldUnsetenv(p)
          THEN WriteEnv(p, Unset)
          ELSE UNCHANGED <<env, unguarded>>
    /\ IF ShouldUnlock(p)
          THEN /\ holder' = 0
               /\ unlockCount' = [unlockCount EXCEPT ![p] = @ + 1]
               /\ locked' = [locked EXCEPT ![p] = FALSE]
          ELSE UNCHANGED <<holder, unlockCount, locked>>

\* A `return` with no `defer os.Remove(file.Name())` registered: only cleanup
\* runs.
Return_NoDeferredRemove(p, how) ==
    /\ result' = [result EXCEPT ![p] = how]
    /\ pc' = [pc EXCEPT ![p] = "deferCleanup"]

\* A `return` statement: the deferred calls run in LIFO order, file.Close and
\* os.Remove first when they were registered, then cleanup.
Return(p, how) ==
    /\ result' = [result EXCEPT ![p] = how]
    /\ pc' = [pc EXCEPT ![p] = IF file[p] # NoFile THEN "deferRemove"
                                                   ELSE "deferCleanup"]

\* updateAndWait reaches its own getServiceClient call only when
\* getClusterStats, and so the invocation made inside it, returned no error.
CanCall(p) ==
    IF after[p] = 0
    THEN TRUE
    ELSE pc[after[p]] = "done" /\ result[after[p]] = "ok"

\* EnvMutex.Lock(); locked := true; setEnv := false; defer cleanup()
Lock(p) ==
    /\ pc[p] = "start"
    /\ CanCall(p)
    /\ holder = 0
    /\ holder' = p
    /\ lockCount' = [lockCount EXCEPT ![p] = @ + 1]
    /\ locked' = [locked EXCEPT ![p] = TRUE]
    /\ setEnv' = [setEnv EXCEPT ![p] = FALSE]
    /\ pc' = [pc EXCEPT ![p] = "checkPath"]
    /\ UNCHANGED <<rec, file, env, files, unlockCount, tsEnv, unguarded, result>>
    /\ UNCHANGED after
    /\ UNCHANGED <<waitVars, drvVars>>

\* if state.CredentialPath != "" { setEnv = true; os.Setenv(env, path) }
SetPathEnv(p) ==
    /\ pc[p] = "checkPath"
    /\ IF rec[p].CredentialPath # ""
          THEN /\ setEnv' = [setEnv EXCEPT ![p] = TRUE]
               /\ WriteEnv(p, rec[p].CredentialPath)
          ELSE UNCHANGED <<setEnv, env, unguarded>>
    /\ pc' = [pc EXCEPT ![p] = "checkContent"]
    /\ UNCHANGED <<rec, locked, file, holder, files, lockCount, unlockCount,
                   tsEnv, result>>
    /\ UNCHANGED after
    /\ UNCHANGED <<waitVars, drvVars>>

\* if state.CredentialContent != "" { file, err := ioutil.TempFile(...) ... }
CreateTemp(p) ==
    /\ pc[p] = "checkContent"
    /\ \/ /\ rec[p].CredentialContent = ""
          /\ pc' = [pc EXCEPT ![p] = "token"]
          /\ UNCHANGED <<file, files, result>>
       \/ /\ rec[p].CredentialContent # ""
          /\ Return(p, "tempFileErr")
          /\ UNCHANGED <<file, files>>
       \/ /\ rec[p].CredentialContent # ""
          /\ file' = [file EXCEPT ![p] = TempFile(p)]
          /\ files' = files \cup {TempFile(p)}
          /\ pc' = [pc EXCEPT ![p] = "copy"]
          /\ UNCHANGED result
    /\ UNCHANGED <<rec, locked, setEnv, holder, env, lockCount, unlockCount,
                   tsEnv, unguarded>>
    /\ UNCHANGED after
    /\ UNCHANGED <<waitVars, drvVars>>

\* io.Copy(file, ...); on success setEnv = true; os.Setenv(env, file.Name())
CopyContent(p) ==
    /\ pc[p] = "copy"
    /\ \/ /\ Return(p, "copyErr")
          /\ UNCHANGED <<setEnv, env, unguarded>>
       \/ /\ setEnv' = [setEnv EXCEPT ![p] = TRUE]
          /\ WriteEnv(p, file[p])
          /\ pc' = [pc EXCEPT ![p] = "token"]
          /\ UNCHANGED result
    /\ UNCHANGED <<rec, locked, file, holder, files, lockCount, unlockCount,
                   tsEnv>>
    /\ UNCHANGED after
    /\ UNCHANGED <<waitVars, drvVars>>

\* ts, err := google.DefaultTokenSource(ctx, scope): reads the variable.
TokenSource(p) ==
    /\ pc[p] = "token"
    /\ tsEnv' = [tsEnv EXCEPT ![p] = env]
    /\ \/ Return(p, "tokenErr")
       \/ /\ pc' = [pc EXCEPT ![p] = "cleanup"]
          /\ UNCHANGED result
    /\ UNCHANGED <<rec, locked, setEnv, file, holder, env, files, lockCount,
                   unlockCount, unguarded>>
    /\ UNCHANGED after
    /\ UNCHANGED <<waitVars, drvVars>>

\* The explicit cleanup() call after token discovery ("Unlocks").
ExplicitCleanup(p) ==
    /\ pc[p] = "cleanup"
    /\ cleanup(p)
    /\ pc' = [pc EXCEPT ![p] = "newClient"]
    /\ UNCHANGED <<rec, setEnv, file, files, lockCount, tsEnv, result>>
    /\ UNCHANGED after
    /\ UNCHANGED <<waitVars, drvVars>>

\* client := oauth2.NewClient(ctx, ts); service, err := raw.New(client)
NewClient(p) ==
    /\ pc[p] = "newClient"
    /\ \/ Return(p, "clientErr")
       \/ Return(p, "ok")
    /\ UNCHANGED <<rec, locked, setEnv, file, holder, env, files, lockCount,
                   unlockCount, tsEnv, unguarded>>
    /\ UNCHANGED after
    /\ UNCHANGED <<waitVars, drvVars>>

\* deferred file.Close() and os.Remove(file.Name())
DeferRemove(p) ==
    /\ pc[p] = "deferRemove"
    /\ files' = files \ {file[p]}
    /\ pc' = [pc EXCEPT ![p] = "deferCleanup"]
    /\ UNCHANGED <<rec, locked, setEnv, file, holder, env, lockCount,
                   unlockCount, tsEnv, unguarded, result>>
    /\ UNCHANGED after
    /\ UNCHANGED <<waitVars, drvVars>>

\* deferred cleanup(), the last deferred call to run; then the function returns.
DeferCleanup(p) ==
    /\ pc[p] = "deferCleanup"
    /\ cleanup(p)
    /\ pc' = [pc EXCEPT ![p] = "done"]
    /\ UNCHANGED <<rec, setEnv, file, files, lockCount, tsEnv, result>>
    /\ UNCHANGED after
    /\ UNCHANGED <<waitVars, drvVars>>

getServiceClient(p) ==
    \/ Lock(p)
    \/ SetPathEnv(p)
    \/ CreateTemp(p)
    \/ CopyContent(p)
    \/ TokenSource(p)
    \/ ExplicitCleanup(p)
    \/ NewClient(p)
    \/ DeferRemove(p)
    \/ DeferCleanup(p)

\* updateAndWait returns before its second getServiceClient call: the
\* invocation inside getClusterStats failed, or the cluster fetch or getState
\* that follow it did.
NotCalled(p) ==
    /\ pc[p] = "start"
    /\ after[p] # 0
    /\ pc[after[p]] \in {"done", "notCalled"}
    /\ pc' = [pc EXCEPT ![p] = "notCalled"]
    /\ UNCHANGED <<rec, locked, setEnv, file, holder, env, files, lockCount,
                   unlockCount, tsEnv, unguarded, result, after>>
    /\ UNCHANGED <<waitVars, drvVars>>

\* The steps of the caller of invocation p.
Step(p) == getServiceClient(p) \/ NotCalled(p)

NextEnv == \E p \in Procs : Step(p)

(***************************************************************************)
(* waitCluster / waitNodePool                                              *)
(***************************************************************************)
runningStatus == "RUNNING"
SleepSeconds == 5

\* Status values the provider may report (an open-ended string enumeration;
\* the empty string is what an absent status field decodes to).
Statuses == {"", "PROVISIONING", "RECONCILING", runningStatus}
\* Errors a fetch may return; "" stands for a nil error.
FetchErrors == {"unavailable", "forbidden"}
\* What one fetch (....Get(...).Do()) may return.
Outcomes ==
    [err : {""}, status : Statuses] \cup [err : FetchErrors, status : {""}]

\* strings.ToLower on the status values.
ToLower(s) ==
    CASE s = "PROVISIONING" -> "provisioning"
      [] s = "RECONCILING" -> "reconciling"
      [] s = "RUNNING" -> "running"
      [] s = "My-Cluster" -> "my-cluster"
      [] OTHER -> s

NoNote == [kind |-> "none", text |-> ""]
NilResult == [returned |-> TRUE, err |-> ""]
NoResult == [returned |-> FALSE, err |-> ""]

\* One iteration of the loop of waitCluster, from the fetch up to (not
\* including) the sleep: last is lastMsg, o the outcome of the fetch.
waitClusterIter_RetryOnError(last, o) ==
    IF o.err = "" /\ o.status = runningStatus
    THEN [exit |-> TRUE, result |-> NilResult, last |-> last,
          note |-> [kind |-> "running", text |-> "Cluster is running"]]
    ELSE [exit |-> FALSE, result |-> NoResult,
          last |-> IF o.status # last THEN o.status ELSE last,
          note |-> IF o.status # last
                   THEN [kind |-> "progress", text |-> ToLower(o.status) \o " cluster"]
                   ELSE NoNote]
waitClusterIter_SleepFirst(last, o) ==
    IF o.err # ""
    THEN [exit |-> TRUE, result |-> [returned |-> TRUE, err |-> o.err],
          last |-> last, note |-> NoNote]
    ELSE IF o.status = runningStatus /\ last = runningStatus
    THEN [exit |-> TRUE, result |-> NilResult, last |-> last,
          note |-> [kind |-> "running", text |-> "Cluster is running"]]
    ELSE [exit |-> FALSE, result |-> NoResult,
          last |-> IF o.status # last THEN o.status ELSE last,
          note |-> IF o.status # last
                   THEN [kind |-> "progress", text |-> ToLower(o.status) \o " cluster"]
                   ELSE NoNote]
waitClusterIter_NotifyEveryPoll(last, o) ==
    IF o.err # ""
    THEN [exit |-> TRUE, result |-> [returned |-> TRUE, err |-> o.err],
          last |-> last, note |-> NoNote]
    ELSE IF o.status = runningStatus
    THEN [exit |-> TRUE, result |-> NilResult, last |-> last,
          note |-> [kind |-> "running", text |-> "Cluster is running"]]
    ELSE [exit |-> FALSE, result |-> NoResult, last |-> o.status,
          note |-> [kind |-> "progress", text |-> ToLower(o.status) \o " cluster"]]
waitClusterIter_GiveUpOnRepeat(last, o) ==
    IF o.err # ""
    THEN [exit |-> TRUE, result |-> [returned |-> TRUE, err |-> o.err],
          last |-> last, note |-> NoNote]
    ELSE IF o.status = runningStatus
    THEN [exit |-> TRUE, result |-> NilResult, last |-> last,
          note |-> [kind |-> "running", text |-> "Cluster is running"]]
    ELSE IF o.status = last /\ last # ""
    THEN [exit |-> TRUE, result |-> [returned |-> TRUE, err |-> "timeout"],
          last |-> last, note |-> NoNote]
    ELSE [exit |-> FALSE, result |-> NoResult, last |-> o.status,
          note |-> [kind |-> "progress", text |-> ToLower(o.status) \o " cluster"]]
waitClusterIter(last, o) ==
    IF o.err # ""
    THEN [exit |-> TRUE, result |-> [returned |-> TRUE, err |-> o.err],
          last |-> last, note |-> NoNote]
    ELSE IF o.status = runningStatus
    THEN [exit |-> TRUE, result |-> NilResult, last |-> last,
          note |-> [kind |-> "running", text |-> "Cluster is running"]]
    ELSE [exit |-> FALSE, result |-> NoResult,
          last |-> IF o.status # last THEN o.status ELSE last,
          note |-> IF o.status # last
                   THEN [kind |-> "progress", text |-> ToLower(o.status) \o " cluster"]
                   ELSE NoNote]

\* The same iteration in waitNodePool.
waitNodePoolIter(last, o) ==
    IF o.err # ""
    THEN [exit |-> TRUE, result |-> [returned |-> TRUE, err |-> o.err],
          last |-> last, note |-> NoNote]
    ELSE IF o.status = runningStatus
    THEN [exit |-> TRUE, result |-> NilResult, last |-> last,
          note |-> [kind |-> "running", text |-> "Nodepool is running"]]
    ELSE [exit |-> FALSE, result |-> NoResult,
          last |-> IF o.status # last THEN o.status ELSE last,
          note |-> IF o.status # last
                   THEN [kind |-> "progress", text |-> ToLower(o.status) \o " nodepool"]
                   ELSE NoNote]

InitWait ==
    /\ wkind \in {"cluster", "nodepool"}
    /\ wpc = "fetch"
    /\ lastMsg = ""
    /\ polled = <<>>
    /\ emitted = <<>>
    /\ slept = 0
    /\ wresult = NoResult

IdleWait ==
    /\ wkind = "cluster"
    /\ wpc = "idle"
    /\ lastMsg = ""
    /\ polled = <<>>
    /\ emitted = <<>>
    /\ slept = 0
    /\ wresult = NoResult

\* The effect of one iteration, it being what the Iter operator computed.
Iterate(o, it) ==
    /\ polled' = Append(polled, o)
    /\ emitted' = Append(emitted, it.note)
    /\ lastMsg' = it.last
    /\ wresult' = it.result
    /\ wpc' = IF it.exit THEN "done" ELSE "sleep"
    /\ UNCHANGED <<wkind, slept>>

\* waitCluster: fetch the cluster, then return or log.
WaitClusterPoll ==
    /\ wkind = "cluster"
    /\ wpc = "fetch"
    /\ Len(polled) < MaxPolls
    /\ \E o \in Outcomes : Iterate(o, waitClusterIter(lastMsg, o))
    /\ UNCHANGED <<envVars, drvVars>>

\* waitNodePool: fetch the node pool, then return or log.
WaitNodePoolPoll ==
    /\ wkind = "nodepool"
    /\ wpc = "fetch"
    /\ Len(polled) < MaxPolls
    /\ \E o \in Outcomes : Iterate(o, waitNodePoolIter(lastMsg, o))
    /\ UNCHANGED <<envVars, drvVars>>

\* time.Sleep(time.Second * 5) at the end of an iteration of either loop.
WaitSleep ==
    /\ wpc = "sleep"
    /\ slept' = slept + SleepSeconds
    /\ wpc' = "fetch"
    /\ UNCHANGED <<wkind, lastMsg, polled, emitted, wresult>>
    /\ UNCHANGED <<envVars, drvVars>>

NextWait ==
    \/ WaitClusterPoll
    \/ WaitNodePoolPoll
    \/ WaitSleep

\* The fetches of a run in which the provider answers "RUNNING" or fails no
\* later than fetch number MaxPolls + 1: any outcome for the first MaxPolls
\* fetches, a terminal one after that.
FairOutcomes ==
    IF Len(polled) < MaxPolls
    THEN Outcomes
    ELSE {o \in Outcomes : o.err # "" \/ o.status = runningStatus}

\* waitCluster's fetch in such a run.
FairClusterPoll ==
    /\ wkind = "cluster"
    /\ wpc = "fetch"
    /\ \E o \in FairOutcomes : Iterate(o, waitClusterIter(lastMsg, o))
    /\ UNCHANGED <<envVars, drvVars>>

\* waitNodePool's fetch in such a run.
FairNodePoolPoll ==
    /\ wkind = "nodepool"
    /\ wpc = "fetch"
    /\ \E o \in FairOutcomes : Iterate(o, waitNodePoolIter(lastMsg, o))
    /\ UNCHANGED <<envVars, drvVars>>

NextWaitFair ==
    \/ FairClusterPoll
    \/ FairNodePoolPoll
    \/ WaitSleep

(***************************************************************************)
(* Go values                                                               *)
(***************************************************************************)
\* A Go map: nil, or a map with the entries kv (a function on its keys).
NilMap == [isNil |-> TRUE, kv |-> <<>>]
MakeMap(f) == [isNil |-> FALSE, kv |-> f]
EmptyMap == MakeMap(<<>>)
\* m[k] = v on a non-nil map
MapPut(m, k, v) ==
    MakeMap([x \in DOMAIN m.kv \cup {k} |-> IF x = k THEN v ELSE m.kv[x]])
\* A Go slice: nil, or a slice with the elements el.
NilSlice == [isNil |-> TRUE, el |-> <<>>]
MakeSlice(q) == [isNil |-> FALSE, el |-> q]
\* A *bool: "nil", or a pointer to "true" / "false".
BoolPtr(b) == IF b THEN "true" ELSE "false"

\* *raw.NodeConfig, with the fields the driver sets (the others stay zero).
NilNodeConfig ==
    [isNil |-> TRUE, DiskSizeGb |-> 0, MachineType |-> "", ImageType |-> "",
     Labels |-> NilMap]
\* types.ClusterInfo inside state: only Metadata is ever set.
ZeroClusterInfo == [Metadata |-> NilMap]

\* state{}: the zero value of the struct `state`.
ZeroState ==
    [DisplayName |-> "", ProjectID |-> "", Zone |-> "", ClusterIpv4Cidr |-> "",
     Description |-> "", NodeCount |-> 0, MasterVersion |-> "",
     MasterAuth |-> "nil", NodeVersion |-> "", Name |-> "",
     NodeConfig |-> NilNodeConfig, CredentialPath |-> "",
     CredentialContent |-> "", EnableAlphaFeature |-> FALSE,
     EnableHTTPLoadBalancing |-> "nil",
     EnableHorizontalPodAutoscaling |-> "nil",
     EnableKubernetesDashboard |-> FALSE, EnableNetworkPolicyConfig |-> "nil",
     Locations |-> NilSlice, Network |-> "", SubNetwork |-> "",
     LegacyAbac |-> FALSE, NodePoolID |-> "",
     EnableStackdriverLogging |-> "nil", EnableStackdriverMonitoring |-> "nil",
     MaintenanceWindow |-> "", ClusterInfo |-> ZeroClusterInfo]

(***************************************************************************)
(* Option bags (types.DriverOptions)                                       *)
(***************************************************************************)
\* Label strings are sequences of characters, so that strings.Split is
\* computed; every other string is atomic.
LabelAB == <<"a", "=", "b">>
LabelAC == <<"a", "=", "c">>
LabelABC == <<"a", "=", "b", "=", "c">>
LabelNoEq == <<"a", "b">>
LabelEq == <<"=">>

SetKey(f, k, v) == [x \in DOMAIN f \cup {k} |-> IF x = k THEN v ELSE f[x]]
DelKey(f, k) == [x \in DOMAIN f \ {k} |-> f[x]]

\* The recognized option keys other than name, project id and zone.
StrKeys ==
    {"display-name", "displayName", "nodePool", "cluster-ipv4-cidr",
     "clusterIpv4Cidr", "description", "master-version", "masterVersion",
     "node-version", "nodeVersion", "machine-type", "machineType",
     "gke-credential-path", "credential", "imageType", "network", "subNetwork",
     "maintenance-window", "maintenanceWindow"}
IntKeys == {"disk-size-gb", "diskSizeGb", "node-count", "nodeCount"}
BoolKeys ==
    {"enable-alpha-feature", "enableAlphaFeature", "kubernetes-dashboard",
     "enableKubernetesDashboard", "legacy-authorization", "enableLegacyAbac",
     "enableHorizontalPodAutoscaling", "enableNetworkPolicyConfig",
     "enable-http-load-balancing", "enableHttpLoadBalancing",
     "enable-stackdriver-logging", "enableStackdriverLogging",
     "enable-stackdriver-monitoring", "enableStackdriverMonitoring"}
SliceKeys == {"locations", "labels"}

\* A bag with no option at all, and one populating every recognized field.
EmptyBag ==
    [StringOptions |-> <<>>, IntOptions |-> <<>>, BoolOptions |-> <<>>,
     StringSliceOptions |-> <<>>]
FullBag ==
    [StringOptions |->
        [k \in {"name", "display-name", "project-id", "zone", "nodePool",
                "cluster-ipv4-cidr", "description", "master-version",
                "node-version", "machine-type", "gke-credential-path",
                "credential", "imageType", "network", "subNetwork",
                "maintenance-window"} |->
            CASE k = "name" -> "c1"
              [] k = "display-name" -> "My-Cluster"
              [] k = "project-id" -> "p1"
              [] k = "zone" -> "z1"
              [] k = "nodePool" -> "pool1"
              [] k = "cluster-ipv4-cidr" -> "10.0.0.0/14"
              [] k = "description" -> "a cluster"
              [] k = "master-version" -> "1.10"
              [] k = "node-version" -> "1.9"
              [] k = "machine-type" -> "n1-standard-1"
              [] k = "gke-credential-path" -> "/keys/key.json"
              [] k = "credential" -> "{key}"
              [] k = "imageType" -> "COS"
              [] k = "network" -> "net"
              [] k = "subNetwork" -> "subnet"
              [] OTHER -> "03:00"],
     IntOptions |-> [k \in {"disk-size-gb", "node-count"} |->
                        IF k = "node-count" THEN 3 ELSE 100],
     BoolOptions |->
        [k \in {"enable-alpha-feature", "kubernetes-dashboard",
                "legacy-authorization", "enableHorizontalPodAutoscaling",
                "enableNetworkPolicyConfig", "enable-http-load-balancing",
                "enable-stackdriver-logging", "enable-stackdriver-monitoring"} |->
            k \notin {"enableNetworkPolicyConfig", "enable-stackdriver-logging"}],
     StringSliceOptions |->
        [k \in SliceKeys |-> IF k = "labels" THEN <<LabelAB>> ELSE <<"z1", "z2">>]]

\* Replace (or, with present = FALSE, remove) one option of a bag.
WithString(b, k, present, v) ==
    [b EXCEPT !.StringOptions = IF present THEN SetKey(@, k, v) ELSE DelKey(@, k)]
WithInt(b, k, present, v) ==
    [b EXCEPT !.IntOptions = IF present THEN SetKey(@, k, v) ELSE DelKey(@, k)]
WithBool(b, k, present, v) ==
    [b EXCEPT !.BoolOptions = IF present THEN SetKey(@, k, v) ELSE DelKey(@, k)]
WithSlice(b, k, present, v) ==
    [b EXCEPT !.StringSliceOptions =
        IF present THEN SetKey(@, k, v) ELSE DelKey(@, k)]

\* Every way of giving, giving empty or leaving out name, project id (under
\* either alias) and zone.
RequiredChoices ==
    [name : {"<absent>", "", "c1"}, projectHyphen : {"<absent>", "", "p1"},
     projectCamel : {"<absent>", "p2"}, zone : {"<absent>", "", "z1"}]
WithRequired(b, r) ==
    LET b1 == WithString(b, "name", r.name # "<absent>", r.name)
        b2 == WithString(b1, "project-id", r.projectHyphen # "<absent>",
                         r.projectHyphen)
        b3 == WithString(b2, "projectId", r.projectCamel # "<absent>",
                         r.projectCamel)
    IN  WithString(b3, "zone", r.zone # "<absent>", r.zone)

\* The bags explored: every choice of the required options over the empty and
\* the full bag, and every single change of one other option of either bag.
BaseBags == {EmptyBag, FullBag}
OptionBags ==
    {WithRequired(b, r) : b \in {EmptyBag, FullBag}, r \in RequiredChoices}
    \cup {WithString(b, k, v # "<absent>", v) :
             b \in BaseBags, k \in StrKeys, v \in {"<absent>", "", "other"}}
    \cup {WithInt(b, k, p, v) :
             b \in BaseBags, k \in IntKeys, p \in BOOLEAN, v \in {0, 7}}
    \cup {WithBool(b, k, p, v) :
             b \in BaseBags, k \in BoolKeys, p \in BOOLEAN, v \in BOOLEAN}
    \cup {WithSlice(b, "locations", p, v) :
             b \in BaseBags, p \in BOOLEAN, v \in {<<>>, <<"z3">>}}
    \cup {WithSlice(b, "labels", p, v) :
             b \in BaseBags, p \in BOOLEAN,
             v \in {<<>>, <<LabelABC>>, <<LabelNoEq>>, <<LabelEq>>,
                    <<LabelAB, LabelAC>>, <<LabelAC, LabelNoEq, LabelAB>>}}

(***************************************************************************)
(* getStateFromOpts                                                        *)
(***************************************************************************)
\* options.GetValueFromDriverOptions: the value of the first of `keys` that
\* the typed option map holds, else the zero value `zero` of the type.
GetValueFromDriverOptions(m, keys, zero) ==
    LET hits == {i \in 1..Len(keys) : keys[i] \in DOMAIN m}
    IN  IF hits = {} THEN zero
        ELSE m[keys[CHOOSE i \in hits : \A j \in hits : i <= j]]
GetString(o, keys) == GetValueFromDriverOptions(o.StringOptions, keys, "")
GetInt(o, keys) == GetValueFromDriverOptions(o.IntOptions, keys, 0)
GetBool(o, keys) == GetValueFromDriverOptions(o.BoolOptions, keys, FALSE)
\* types.BoolPointerType: a pointer to the value found, else nil.
GetBoolPointer(o, keys) ==
    LET hits == {i \in 1..Len(keys) : keys[i] \in DOMAIN o.BoolOptions}
    IN  IF hits = {} THEN "nil" ELSE BoolPtr(GetBool(o, keys))
GetStringSlice(o, keys) ==
    GetValueFromDriverOptions(o.StringSliceOptions, keys, <<>>)

\* strings.Split(part, "=") on a sequence of characters.
RECURSIVE Split(_)
Split(s) ==
    LET eqs == {i \in 1..Len(s) : s[i] = "="}
    IN  IF eqs = {} THEN <<s>>
        ELSE LET i == CHOOSE i \in eqs : \A j \in eqs : i <= j
             IN  <<SubSeq(s, 1, i - 1)>> \o Split(SubSeq(s, i + 1, Len(s)))

\* The loop over labelValues.Value: an entry that splits into exactly two
\* parts sets Labels[kv[0]] = kv[1]; any other entry is skipped.
RECURSIVE ParseLabels(_, _)
ParseLabels(labels, parts) ==
    IF parts = <<>> THEN labels
    ELSE LET kv == Split(Head(parts))
         IN  ParseLabels(IF Len(kv) = 2 THEN MapPut(labels, kv[1], kv[2])
                                        ELSE labels,
                         Tail(parts))

\* (s *state) validate(): the error message, "" for nil.
validate_SkipName(s) ==
    IF s.ProjectID = "" THEN "project ID is required"
    ELSE IF s.Zone = "" THEN "zone is required"
    ELSE ""
validate(s) ==
    IF s.ProjectID = "" THEN "project ID is required"
    ELSE IF s.Zone = "" THEN "zone is required"
    ELSE IF s.Name = "" THEN "cluster name is required"
    ELSE ""

\* getStateFromOpts without its final validate().
stateFromOpts(o) ==
    [Name |-> GetString(o, <<"name">>),
     DisplayName |-> GetString(o, <<"display-name", "displayName">>),
     ProjectID |-> GetString(o, <<"project-id", "projectId">>),
     Zone |-> GetString(o, <<"zone">>),
     NodePoolID |-> GetString(o, <<"nodePool">>),
     ClusterIpv4Cidr |-> GetString(o, <<"cluster-ipv4-cidr", "clusterIpv4Cidr">>),
     Description |-> GetString(o, <<"description">>),
     MasterVersion |-> GetString(o, <<"master-version", "masterVersion">>),
     NodeVersion |-> GetString(o, <<"node-version", "nodeVersion">>),
     MasterAuth |-> "nil",
     NodeConfig |->
        [isNil |-> FALSE,
         DiskSizeGb |-> GetInt(o, <<"disk-size-gb", "diskSizeGb">>),
         MachineType |-> GetString(o, <<"machine-type", "machineType">>),
         ImageType |-> GetString(o, <<"imageType">>),
         Labels |-> ParseLabels(EmptyMap, GetStringSlice(o, <<"labels">>))],
     CredentialPath |-> GetString(o, <<"gke-credential-path">>),
     CredentialContent |-> GetString(o, <<"credential">>),
     EnableAlphaFeature |->
        GetBool(o, <<"enable-alpha-feature", "enableAlphaFeature">>),
     EnableHorizontalPodAutoscaling |->
        GetBoolPointer(o, <<"enableHorizontalPodAutoscaling">>),
     EnableNetworkPolicyConfig |->
        GetBoolPointer(o, <<"enableNetworkPolicyConfig">>),
     EnableHTTPLoadBalancing |->
        GetBoolPointer(o, <<"enable-http-load-balancing", "enableHttpLoadBalancing">>),
     EnableKubernetesDashboard |->
        GetBool(o, <<"kubernetes-dashboard", "enableKubernetesDashboard">>),
     Network |-> GetString(o, <<"network">>),
     SubNetwork |-> GetString(o, <<"subNetwork">>),
     LegacyAbac |-> GetBool(o, <<"legacy-authorization", "enableLegacyAbac">>),
     Locations |-> MakeSlice(GetStringSlice(o, <<"locations">>)),
     NodeCount |-> GetInt(o, <<"node-count", "nodeCount">>),
     EnableStackdriverLogging |->
        GetBoolPointer(o, <<"enable-stackdriver-logging", "enableStackdriverLogging">>),
     EnableStackdriverMonitoring |->
        GetBoolPointer(o, <<"enable-stackdriver-monitoring",
                            "enableStackdriverMonitoring">>),
     MaintenanceWindow |->
        GetString(o, <<"maintenance-window", "maintenanceWindow">>),
     ClusterInfo |-> [Metadata |-> EmptyMap]]

\* getStateFromOpts: `return d, d.validate()`.
getStateFromOpts(o) ==
    LET d == stateFromOpts(o) IN [state |-> d, err |-> validate(d)]

(***************************************************************************)
(* storeState / getState                                                   *)
(***************************************************************************)
\* JSON values: what encoding/json writes and reads.  A JSON text is held as
\* the value it denotes; NoText is the empty string and BadText a string that
\* is not JSON, which json.Unmarshal both reject.
JStr(x) == [t |-> "string", v |-> x]
JNum(x) == [t |-> "number", v |-> x]
JBool(x) == [t |-> "bool", v |-> x]
JNull == [t |-> "null", v |-> 0]
JArr(q) == [t |-> "array", v |-> q]
JObj(f) == [t |-> "object", v |-> f]
NoText == [t |-> "empty", v |-> 0]
BadText == [t |-> "invalid", v |-> 0]

JBoolPtr(p) == IF p = "nil" THEN JNull ELSE JBool(p = "true")
\* A map[string]string as a JSON object (a nil map is written as null).
JMap(m) == IF m.isNil THEN JNull ELSE JObj([k \in DOMAIN m.kv |-> JStr(m.kv[k])])
\* A field tagged omitempty is left out when it is false, 0, "", a nil
\* pointer, or an empty (or nil) map or slice.
OmitEmpty(all, empty) == JObj([k \in {x \in DOMAIN all : ~empty[x]} |-> all[k]])

\* (*raw.NodeConfig).MarshalJSON: every field is tagged omitempty.
MarshalNodeConfig(nc) ==
    IF nc.isNil THEN JNull
    ELSE OmitEmpty([diskSizeGb |-> JNum(nc.DiskSizeGb),
                    machineType |-> JStr(nc.MachineType),
                    imageType |-> JStr(nc.ImageType),
                    labels |-> JMap(nc.Labels)],
                   [diskSizeGb |-> nc.DiskSizeGb = 0,
                    machineType |-> nc.MachineType = "",
                    imageType |-> nc.ImageType = "",
                    labels |-> nc.Labels.isNil \/ DOMAIN nc.Labels.kv = {}])

\* types.ClusterInfo: every field is tagged omitempty.
MarshalClusterInfo(ci) ==
    OmitEmpty([metadata |-> JMap(ci.Metadata)],
              [metadata |-> ci.Metadata.isNil \/ DOMAIN ci.Metadata.kv = {}])

\* json.Marshal(state): the struct has no tags, so every field is written
\* under its own name.
Marshal_DropCredential(s) ==
    JObj([DisplayName |-> JStr(s.DisplayName),
          ProjectID |-> JStr(s.ProjectID),
          Zone |-> JStr(s.Zone),
          ClusterIpv4Cidr |-> JStr(s.ClusterIpv4Cidr),
          Description |-> JStr(s.Description),
          NodeCount |-> JNum(s.NodeCount),
          MasterVersion |-> JStr(s.MasterVersion),
          MasterAuth |-> JNull,
          NodeVersion |-> JStr(s.NodeVersion),
          Name |-> JStr(s.Name),
          NodeConfig |-> MarshalNodeConfig(s.NodeConfig),
          CredentialPath |-> JStr(s.CredentialPath),
          EnableAlphaFeature |-> JBool(s.EnableAlphaFeature),
          EnableHTTPLoadBalancing |-> JBoolPtr(s.EnableHTTPLoadBalancing),
          EnableHorizontalPodAutoscaling |->
              JBoolPtr(s.EnableHorizontalPodAutoscaling),
          EnableKubernetesDashboard |-> JBool(s.EnableKubernetesDashboard),
          EnableNetworkPolicyConfig |-> JBoolPtr(s.EnableNetworkPolicyConfig),
          Locations |-> IF s.Locations.isNil THEN JNull ELSE JArr(s.Locations.el),
          Network |-> JStr(s.Network),
          SubNetwork |-> JStr(s.SubNetwork),
          LegacyAbac |-> JBool(s.LegacyAbac),
          NodePoolID |-> JStr(s.NodePoolID),
          EnableStackdriverLogging |-> JBoolPtr(s.EnableStackdriverLogging),
          EnableStackdriverMonitoring |-> JBoolPtr(s.EnableStackdriverMonitoring),
          MaintenanceWindow |-> JStr(s.MaintenanceWindow),
          ClusterInfo |-> MarshalClusterInfo(s.ClusterInfo)])
Marshal(s) ==
    JObj([DisplayName |-> JStr(s.DisplayName),
          ProjectID |-> JStr(s.ProjectID),
          Zone |-> JStr(s.Zone),
          ClusterIpv4Cidr |-> JStr(s.ClusterIpv4Cidr),
          Description |-> JStr(s.Description),
          NodeCount |-> JNum(s.NodeCount),
          MasterVersion |-> JStr(s.MasterVersion),
          MasterAuth |-> JNull,
          NodeVersion |-> JStr(s.NodeVersion),
          Name |-> JStr(s.Name),
          NodeConfig |-> MarshalNodeConfig(s.NodeConfig),
          CredentialPath |-> JStr(s.CredentialPath),
          CredentialContent |-> JStr(s.CredentialContent),
          EnableAlphaFeature |-> JBool(s.EnableAlphaFeature),
          EnableHTTPLoadBalancing |-> JBoolPtr(s.EnableHTTPLoadBalancing),
          EnableHorizontalPodAutoscaling |->
              JBoolPtr(s.EnableHorizontalPodAutoscaling),
          EnableKubernetesDashboard |-> JBool(s.EnableKubernetesDashboard),
          EnableNetworkPolicyConfig |-> JBoolPtr(s.EnableNetworkPolicyConfig),
          Locations |-> IF s.Locations.isNil THEN JNull ELSE JArr(s.Locations.el),
          Network |-> JStr(s.Network),
          SubNetwork |-> JStr(s.SubNetwork),
          LegacyAbac |-> JBool(s.LegacyAbac),
          NodePoolID |-> JStr(s.NodePoolID),
          EnableStackdriverLogging |-> JBoolPtr(s.EnableStackdriverLogging),
          EnableStackdriverMonitoring |-> JBoolPtr(s.EnableStackdriverMonitoring),
          MaintenanceWindow |-> JStr(s.MaintenanceWindow),
          ClusterInfo |-> MarshalClusterInfo(s.ClusterInfo)])

\* json.Unmarshal into a zero field: a key that is absent, or whose value is
\* null, leaves the field at its zero value `zero`.
Field(obj, k, zero) ==
    IF k \in DOMAIN obj /\ obj[k].t # "null" THEN obj[k].v ELSE zero
FieldBoolPtr(obj, k) ==
    IF k \in DOMAIN obj /\ obj[k].t # "null" THEN BoolPtr(obj[k].v) ELSE "nil"
\* A JSON object read into a nil map[string]string makes a map; an absent
\* key or null leaves the map nil.
FieldMap(obj, k) ==
    IF k \in DOMAIN obj /\ obj[k].t # "null"
    THEN MakeMap([x \in DOMAIN obj[k].v |-> obj[k].v[x].v])
    ELSE NilMap
FieldSlice(obj, k) ==
    IF k \in DOMAIN obj /\ obj[k].t # "null" THEN MakeSlice(obj[k].v) ELSE NilSlice

UnmarshalNodeConfig(obj, k) ==
    IF k \in DOMAIN obj /\ obj[k].t # "null"
    THEN LET nc == obj[k].v
         IN  [isNil |-> FALSE,
              DiskSizeGb |-> Field(nc, "diskSizeGb", 0),
              MachineType |-> Field(nc, "machineType", ""),
              ImageType |-> Field(nc, "imageType", ""),
              Labels |-> FieldMap(nc, "labels")]
    ELSE NilNodeConfig

UnmarshalClusterInfo(obj, k) ==
    IF k \in DOMAIN obj /\ obj[k].t # "null"
    THEN [Metadata |-> FieldMap(obj[k].v, "metadata")]
    ELSE ZeroClusterInfo

\* json.Unmarshal(text, &state) with state = state{}.
Unmarshal(text) ==
    IF text.t # "object"
    THEN [state |-> ZeroState,
          err |-> IF text.t = "empty" THEN "unexpected end of JSON input"
                                      ELSE "invalid character"]
    ELSE LET o == text.v
         IN  [err |-> "",
              state |->
                [DisplayName |-> Field(o, "DisplayName", ""),
                 ProjectID |-> Field(o, "ProjectID", ""),
                 Zone |-> Field(o, "Zone", ""),
                 ClusterIpv4Cidr |-> Field(o, "ClusterIpv4Cidr", ""),
                 Description |-> Field(o, "Description", ""),
                 NodeCount |-> Field(o, "NodeCount", 0),
                 MasterVersion |-> Field(o, "MasterVersion", ""),
                 MasterAuth |-> "nil",
                 NodeVersion |-> Field(o, "NodeVersion", ""),
                 Name |-> Field(o, "Name", ""),
                 NodeConfig |-> UnmarshalNodeConfig(o, "NodeConfig"),
                 CredentialPath |-> Field(o, "CredentialPath", ""),
                 CredentialContent |-> Field(o, "CredentialContent", ""),
                 EnableAlphaFeature |-> Field(o, "EnableAlphaFeature", FALSE),
                 EnableHTTPLoadBalancing |->
                     FieldBoolPtr(o, "EnableHTTPLoadBalancing"),
                 EnableHorizontalPodAutoscaling |->
                     FieldBoolPtr(o, "EnableHorizontalPodAutoscaling"),
                 EnableKubernetesDashboard |->
                     Field(o, "EnableKubernetesDashboard", FALSE),
                 EnableNetworkPolicyConfig |->
                     FieldBoolPtr(o, "EnableNetworkPolicyConfig"),
                 Locations |-> FieldSlice(o, "Locations"),
                 Network |-> Field(o, "Network", ""),
                 SubNetwork |-> Field(o, "SubNetwork", ""),
                 LegacyAbac |-> Field(o, "LegacyAbac", FALSE),
                 NodePoolID |-> Field(o, "NodePoolID", ""),
                 EnableStackdriverLogging |->
                     FieldBoolPtr(o, "EnableStackdriverLogging"),
                 EnableStackdriverMonitoring |->
                     FieldBoolPtr(o, "EnableStackdriverMonitoring"),
                 MaintenanceWindow |-> Field(o, "MaintenanceWindow", ""),
                 ClusterInfo |-> UnmarshalClusterInfo(o, "ClusterInfo")]]

\* info.Metadata[k]: the empty string when the map is nil or lacks the key.
MetadataText(i, k) ==
    IF ~i.Metadata.isNil /\ k \in DOMAIN i.Metadata.kv
    THEN i.Metadata.kv[k] ELSE NoText

\* storeState(info, state): the info afterwards, and the error returned.
storeState(i, s) ==
    LET m0 == IF i.Metadata.isNil THEN EmptyMap ELSE i.Metadata
        m1 == MapPut(m0, "state", Marshal(s))
        m2 == MapPut(m1, "project-id", JStr(s.ProjectID))
        m3 == MapPut(m2, "zone", JStr(s.Zone))
    IN  [info |-> [i EXCEPT !.Metadata = m3], err |-> ""]

\* getState(info): the state and the error returned.
getState(i) == Unmarshal(MetadataText(i, "state"))

(***************************************************************************)
(* generateClusterCreateRequest                                            *)
(***************************************************************************)
none == "none"

\* `!*p` alone, with a nil pointer read as false
ExplicitlyFalse_NilIsFalse(p) == p # "true"
\* `p != nil && !*p` for a *bool p
ExplicitlyFalse(p) == p # "nil" /\ p = "false"

\* The nil *raw.MaintenancePolicy.
NilMaintenancePolicy == [isNil |-> TRUE, StartTime |-> ""]
\* The value of request before generateClusterCreateRequest has run.
NoRequest == <<>>

\* The raw.Cluster of the request built from a state.
generateClusterCreateRequest(state) ==
    LET disableHTTPLoadBalancing ==
            ExplicitlyFalse(state.EnableHTTPLoadBalancing)
        disableHorizontalPodAutoscaling ==
            ExplicitlyFalse(state.EnableHorizontalPodAutoscaling)
        disableNetworkPolicyConfig ==
            ExplicitlyFalse(state.EnableNetworkPolicyConfig)
    IN  [Name |-> state.Name,
         Zone |-> state.Zone,
         InitialClusterVersion |-> state.MasterVersion,
         InitialNodeCount |-> state.NodeCount,
         ClusterIpv4Cidr |-> state.ClusterIpv4Cidr,
         Description |-> state.Description,
         EnableKubernetesAlpha |-> state.EnableAlphaFeature,
         AddonsConfig |->
            [HttpLoadBalancing |-> [Disabled |-> disableHTTPLoadBalancing],
             HorizontalPodAutoscaling |->
                [Disabled |-> disableHorizontalPodAutoscaling],
             KubernetesDashboard |->
                [Disabled |-> ~state.EnableKubernetesDashboard],
             NetworkPolicyConfig |-> [Disabled |-> disableNetworkPolicyConfig]],
         Network |-> state.Network,
         Subnetwork |-> state.SubNetwork,
         LegacyAbac |-> [Enabled |-> state.LegacyAbac],
         MasterAuth |-> [Username |-> "admin"],
         NodeConfig |-> state.NodeConfig,
         ResourceLabels |->
            MakeMap([k \in {"display-name"} |-> ToLower(state.DisplayName)]),
         LoggingService |->
            IF ExplicitlyFalse(state.EnableStackdriverLogging)
            THEN none ELSE "",
         MonitoringService |->
            IF ExplicitlyFalse(state.EnableStackdriverMonitoring)
            THEN none ELSE "",
         MaintenancePolicy |->
            IF state.MaintenanceWindow # ""
            THEN [isNil |-> FALSE, StartTime |-> state.MaintenanceWindow]
            ELSE NilMaintenancePolicy]

(***************************************************************************)
(* Lifecycle operations                                                    *)
(***************************************************************************)
\* What an operation did: the error it returned ("" is nil) and the provider
\* calls it issued, in order.
\* Driver.Update: its body is `return &types.ClusterInfo{}, nil`.
Update(i, o) == [op |-> "Update", err |-> "", calls |-> <<>>]
\* Driver.Remove: its body is `return nil`.
Remove(i) == [op |-> "Remove", err |-> "", calls |-> <<>>]
NoOp == [op |-> "none", err |-> "", calls |-> <<>>]

\* A cluster-info as the orchestrator may hand it over: fresh, holding a state
\* persisted earlier, or holding a state string that is not JSON.
InitialInfos ==
    {[Metadata |-> NilMap],
     storeState([Metadata |-> NilMap], stateFromOpts(FullBag)).info,
     [Metadata |-> MakeMap([k \in {"state"} |-> BadText])]}

\* The value of st and restored before getStateFromOpts / getState has run.
NoState == <<>>

InitDrv ==
    /\ opts \in OptionBags
    /\ info \in InitialInfos
    /\ provider \in [deleteErr : {"", "notFound", "forbidden"}]
    /\ decoded = FALSE
    /\ st = NoState
    /\ stErr = ""
    /\ stored = FALSE
    /\ restoredFrom = "none"
    /\ restored = NoState
    /\ restoredErr = ""
    /\ lastOp = NoOp
    /\ request = NoRequest

IdleDrv ==
    /\ opts = EmptyBag
    /\ info = [Metadata |-> NilMap]
    /\ provider = [deleteErr |-> ""]
    /\ decoded = FALSE
    /\ st = NoState
    /\ stErr = ""
    /\ stored = FALSE
    /\ restoredFrom = "none"
    /\ restored = NoState
    /\ restoredErr = ""
    /\ lastOp = NoOp
    /\ request = NoRequest

\* state, err := getStateFromOpts(opts)
Decode ==
    /\ ~decoded
    /\ decoded' = TRUE
    /\ st' = getStateFromOpts(opts).state
    /\ stErr' = getStateFromOpts(opts).err
    /\ UNCHANGED <<opts, info, provider, stored, restoredFrom, restored,
                   restoredErr, lastOp>>
    /\ UNCHANGED request
    /\ UNCHANGED <<envVars, waitVars>>

\* storeState(info, state), with the state a successful decode returned
Store ==
    /\ decoded /\ stErr = ""
    /\ ~stored
    /\ stored' = TRUE
    /\ info' = storeState(info, st).info
    /\ UNCHANGED <<opts, provider, decoded, st, stErr, restoredFrom, restored,
                   restoredErr, lastOp>>
    /\ UNCHANGED request
    /\ UNCHANGED <<envVars, waitVars>>

\* state, err := getState(info)
Restore ==
    /\ restoredFrom # (IF stored THEN "stored" ELSE "initial")
    /\ restoredFrom' = IF stored THEN "stored" ELSE "initial"
    /\ restored' = getState(info).state
    /\ restoredErr' = getState(info).err
    /\ UNCHANGED <<opts, info, provider, decoded, st, stErr, stored, lastOp>>
    /\ UNCHANGED request
    /\ UNCHANGED <<envVars, waitVars>>

\* d.Update(ctx, info, opts)
DoUpdate ==
    /\ lastOp # Update(info, opts)
    /\ lastOp' = Update(info, opts)
    /\ UNCHANGED <<opts, info, provider, decoded, st, stErr, stored,
                   restoredFrom, restored, restoredErr>>
    /\ UNCHANGED request
    /\ UNCHANGED <<envVars, waitVars>>

\* d.Remove(ctx, info)
DoRemove ==
    /\ lastOp # Remove(info)
    /\ lastOp' = Remove(info)
    /\ UNCHANGED <<opts, info, provider, decoded, st, stErr, stored,
                   restoredFrom, restored, restoredErr>>
    /\ UNCHANGED request
    /\ UNCHANGED <<envVars, waitVars>>

\* request := d.generateClusterCreateRequest(state)
BuildRequest ==
    /\ decoded
    /\ request = NoRequest
    /\ request' = generateClusterCreateRequest(st)
    /\ UNCHANGED <<opts, info, provider, decoded, st, stErr, stored,
                   restoredFrom, restored, restoredErr, lastOp>>
    /\ UNCHANGED <<envVars, waitVars>>

NextDrv ==
    \/ Decode
    \/ Store
    \/ Restore
    \/ DoUpdate
    \/ DoRemove
    \/ BuildRequest

(***************************************************************************)
(* Specifications                                                          *)
(***************************************************************************)
\* Concurrent getServiceClient invocations.
InitSpecEnv == InitEnv /\ IdleWait /\ IdleDrv
SpecEnv == InitSpecEnv /\ [][NextEnv]_vars

\* The same invocations under a fair scheduler, with file operations, token
\* discovery and client construction terminating: a caller that can take a
\* step continuously eventually takes one.  (A caller waiting in
\* EnvMutex.Lock can step whenever the mutex is free.)
SpecEnvFair ==
    InitSpecEnv /\ [][NextEnv]_vars /\ \A p \in Procs : WF_vars(Step(p))

\* One run of waitCluster or of waitNodePool.
InitSpecWait == IdleEnv /\ InitWait /\ IdleDrv
SpecWait == InitSpecWait /\ [][NextWait]_vars

\* The same run when every fetch and every sleep it starts terminates (the
\* loop is sequential code: a step that can be taken is taken) and the
\* provider gives a terminal answer no later than fetch MaxPolls + 1.
SpecWaitFair == InitSpecWait /\ [][NextWaitFair]_vars /\ WF_vars(NextWaitFair)

\* The state codec and the lifecycle operations on one option bag and info.
Init == IdleEnv /\ IdleWait /\ InitDrv
Next == NextDrv
Spec == Init /\ [][Next]_vars

(***************************************************************************)
(* Claims about getServiceClient                                           *)
(***************************************************************************)

\* The value invocation p itself stores in the variable before token
\* discovery: the temp-file name when inline content is given (the later
\* Setenv), else the credential path.
SetsEnv(p) == rec[p].CredentialPath # "" \/ rec[p].CredentialContent # ""
OwnCredential(p) ==
    IF rec[p].CredentialContent # "" THEN TempFile(p) ELSE rec[p].CredentialPath

\* C1: when an invocation calls google.DefaultTokenSource, the credential
\* variable holds exactly the value that this invocation stored in it; no other
\* invocation's Setenv or Unsetenv falls between its own Setenv and that call.
C1_TokenSeesOwnCredential ==
    \A p \in Procs :
        (tsEnv[p] # NotYet /\ SetsEnv(p)) => tsEnv[p] = OwnCredential(p)

\* C2: every os.Setenv and os.Unsetenv of getServiceClient, the deferred
\* cleanup included, is executed while the invocation holds EnvMutex.
C2_EnvWrittenOnlyUnderLock ==
    \A p \in Procs : ~unguarded[p]

\* C3: each invocation locks EnvMutex exactly once and unlocks it exactly once
\* on every exit path; the explicit cleanup followed by the deferred cleanup
\* never unlocks twice, and a returned invocation does not hold the lock.
C3_LockOnceUnlockOnce ==
    \A p \in Procs :
        /\ lockCount[p] <= 1
        /\ unlockCount[p] <= lockCount[p]
        /\ (holder = p) <=> (lockCount[p] = 1 /\ unlockCount[p] = 0)
        /\ pc[p] = "done" =>
              /\ lockCount[p] = 1
              /\ unlockCount[p] = 1
              /\ holder # p

\* An invocation returned successfully: both the explicit and the deferred
\* cleanup ran, and the lock was released once.
C3_Witness ==
    \E p \in Procs :
        /\ pc[p] = "done"
        /\ result[p] = "ok"
        /\ unlockCount[p] = 1

\* C12: whenever the record's credential path is non-empty, the invocation
\* creates no temporary file and the credential variable holds that path at
\* the moment of token-source discovery; inline content is written to a
\* temporary file and used only when the path is empty, also for a record in
\* which both fields are set.
C12_PathTakesPrecedence ==
    \A p \in Procs :
        rec[p].CredentialPath # "" =>
            /\ file[p] = NoFile
            /\ tsEnv[p] # NotYet => tsEnv[p] = rec[p].CredentialPath

\* C13: a temporary credential file created by an invocation exists while
\* that invocation copies into it and when it runs token-source discovery, and
\* on every exit path taken after its creation (copy error, token-source
\* error, client-construction error, success) the file is gone once the
\* invocation has returned.
C13_TempFileRemovedOnReturn ==
    \A p \in Procs :
        file[p] # NoFile =>
            /\ pc[p] \in {"copy", "token"} => file[p] \in files
            /\ pc[p] = "done" =>
                /\ file[p] \notin files
                /\ result[p] \in {"copyErr", "tokenErr", "clientErr", "ok"}

\* Two invocations that both created a temporary file and have returned, one
\* with success after token discovery read its file's name, the other with a
\* token-source error.
C13_Witness ==
    \E p, q \in Procs :
        /\ pc[p] = "done" /\ pc[q] = "done"
        /\ file[p] # NoFile /\ file[q] # NoFile
        /\ result[p] = "ok" /\ tsEnv[p] = file[p]
        /\ result[q] = "tokenErr"
        /\ files = {}

Returned(p) == pc[p] \in {"done", "notCalled"}
\* Every invocation still to return is waiting at EnvMutex.Lock with the mutex
\* held.
AllBlockedOnLock ==
    /\ \E p \in Procs : ~Returned(p)
    /\ \A p \in Procs : ~Returned(p) => pc[p] = "start"
    /\ holder # 0

\* C15: under a fair scheduler every getServiceClient invocation, concurrent
\* ones and the second of the two that updateAndWait makes one after the other
\* alike, eventually acquires EnvMutex and returns (unless updateAndWait gave
\* up before making it); at no time are all pending invocations blocked on
\* the lock; and once all have returned the lock is free.
C15_EveryInvocationReturns ==
    /\ \A p \in Procs :
          <>(pc[p] = "notCalled" \/ (pc[p] = "done" /\ lockCount[p] = 1))
    /\ []~AllBlockedOnLock
    /\ []((\A p \in Procs : Returned(p)) => holder = 0)

\* updateAndWait made both of its invocations: the second acquired the lock
\* after the first had returned it, both have returned and the lock is free.
C15_Witness ==
    \E p, q \in Procs :
        /\ after[q] = p
        /\ pc[p] = "done" /\ pc[q] = "done"
        /\ lockCount[p] = 1 /\ lockCount[q] = 1
        /\ holder = 0

(***************************************************************************)
(* Claims about the wait loops                                             *)
(***************************************************************************)
Polls == 1..Len(polled)

\* C4: at whatever iteration a fetch returns an error, the loop returns that
\* error at once: no further fetch, no sleep after the failing fetch, and no
\* notification for that iteration.
C4_FetchErrorReturnsAtOnce ==
    \A i \in Polls :
        polled[i].err # "" =>
            /\ i = Len(polled)
            /\ wpc = "done"
            /\ wresult = [returned |-> TRUE, err |-> polled[i].err]
            /\ emitted[i] = NoNote
            /\ slept = SleepSeconds * (i - 1)

\* The third fetch failed after two non-terminal polls.
C4_Witness ==
    /\ Len(polled) = 3
    /\ polled[3].err # ""
    /\ wresult.returned

\* C5: the loop returns nil at the first fetch whose status is "RUNNING",
\* without sleeping after it, having slept 5 seconds exactly once after each
\* earlier (non-terminal) poll; a terminal first fetch returns with no sleep.
C5_ReturnsAtFirstRunning ==
    /\ \A i \in Polls :
          (polled[i].err = "" /\ polled[i].status = runningStatus) =>
              /\ i = Len(polled)
              /\ wpc = "done"
              /\ wresult = NilResult
              /\ slept = SleepSeconds * (i - 1)
    /\ \A i \in Polls :
          (polled[i].err = "" /\ polled[i].status # runningStatus) =>
              /\ i < Len(polled) => slept >= SleepSeconds * i
              /\ i = Len(polled) =>
                    /\ ~wresult.returned
                    /\ slept = SleepSeconds * (IF wpc = "sleep" THEN i - 1 ELSE i)

\* The first fetch was already terminal: success with zero sleeps.
C5_Witness ==
    /\ Len(polled) = 1
    /\ polled[1].status = runningStatus
    /\ wresult = NilResult
    /\ slept = 0

\* C6 as stated: a progress notification is emitted exactly on the first poll
\* of each maximal run of consecutive polls reporting the same non-terminal
\* status, and never on a poll whose status equals the previous poll's.
C6_NotifiesOncePerRun ==
    \A i \in Polls :
        (emitted[i].kind = "progress") <=>
            /\ polled[i].err = ""
            /\ polled[i].status # runningStatus
            /\ (i = 1 \/ polled[i - 1].status # polled[i].status)

\* C6 amended: the comparison of the first poll is against the initial
\* lastMsg, the empty string; so a run of empty statuses that starts at the
\* first poll is not notified, every other run exactly once on its first poll.
PrevStatus(i) == IF i = 1 THEN "" ELSE polled[i - 1].status
C6_NotifiesOncePerRunAfterEmpty ==
    \A i \in Polls :
        /\ (emitted[i].kind = "progress") <=>
              /\ polled[i].err = ""
              /\ polled[i].status # runningStatus
              /\ polled[i].status # PrevStatus(i)
        /\ emitted[i].kind = "progress" =>
              emitted[i].text \in {ToLower(polled[i].status) \o " cluster",
                                   ToLower(polled[i].status) \o " nodepool"}

\* PROVISIONING, PROVISIONING, RUNNING: one progress notification, then success.
C6_Witness ==
    /\ Len(polled) = 3
    /\ polled[1].status = "PROVISIONING"
    /\ polled[2].status = "PROVISIONING"
    /\ polled[3].status = runningStatus
    /\ emitted[1].kind = "progress"
    /\ emitted[2].kind = "none"
    /\ wresult = NilResult

\* The latest fetch of the run.
LastPoll == polled[Len(polled)]
NonTerminal(o) == o.err = "" /\ o.status # runningStatus
NoFetchFailed == \A i \in Polls : polled[i].err = ""

\* The loop has returned exactly when its latest fetch reported "RUNNING"
\* (with nil) or failed (with that error); while every fetch so far succeeded
\* without reporting "RUNNING" it has not returned and goes on to sleep and
\* fetch again.
ExitsOnlyAfterTerminalFetch ==
    /\ wresult.returned <=> wpc = "done"
    /\ wresult.returned =>
          /\ Len(polled) >= 1
          /\ \/ /\ LastPoll.err = "" /\ LastPoll.status = runningStatus
                /\ wresult = NilResult
             \/ /\ LastPoll.err # ""
                /\ wresult = [returned |-> TRUE, err |-> LastPoll.err]
    /\ (\A i \in Polls : NonTerminal(polled[i])) =>
          /\ ~wresult.returned
          /\ wpc \in {"fetch", "sleep"}

\* C14: the wait loop returns only after a fetch that reported "RUNNING" (nil)
\* or after a fetch that failed (that error); however many successful fetches
\* report another status, it does not return but sleeps and fetches again;
\* and in a run whose fetches never fail and eventually report "RUNNING" it
\* eventually returns nil.
C14_ExitsOnlyOnRunningOrError ==
    /\ []ExitsOnlyAfterTerminalFetch
    /\ []NoFetchFailed => <>(wresult = NilResult)

\* MaxPolls non-terminal fetches, each followed by a sleep, and then a fetch
\* reporting "RUNNING": the loop has returned nil.
C14_Witness ==
    /\ Len(polled) = MaxPolls + 1
    /\ \A i \in 1..MaxPolls : NonTerminal(polled[i])
    /\ LastPoll.status = runningStatus
    /\ slept = MaxPolls * SleepSeconds
    /\ wresult = NilResult

(***************************************************************************)
(* Claims about the state codec and the lifecycle operations               *)
(***************************************************************************)

\* C7: decode returns a validation error if and only if project id, zone or
\* cluster name is empty, whatever the other options are; and decoding makes
\* no provider call and touches neither EnvMutex nor the environment variable.
C7_DecodeValidatesRequired ==
    decoded =>
        /\ (stErr # "") <=> (st.ProjectID = "" \/ st.Zone = "" \/ st.Name = "")
        /\ st.Name = GetString(opts, <<"name">>)
        /\ st.Zone = GetString(opts, <<"zone">>)
        /\ lastOp.calls = <<>>
        /\ holder = 0 /\ env = Unset
        /\ \A p \in Procs : lockCount[p] = 0

\* Decoding a bag whose only defect is a missing cluster name failed.
C7_Witness ==
    /\ decoded
    /\ st.ProjectID # "" /\ st.Zone # "" /\ st.Name = ""
    /\ st.Description # ""
    /\ stErr # ""

\* C8: Remove returns nil when the provider's delete fails with "notFound" (or
\* succeeds), and a non-nil error for every other provider error and for a
\* state that cannot be restored.
C8_RemoveToleratesOnlyNotFound ==
    lastOp.op = "Remove" =>
        ((lastOp.err = "") <=>
            /\ getState(info).err = ""
            /\ provider.deleteErr \in {"", "notFound"})

\* C9: Update issues master-version update and waitCluster, node-version
\* update and waitNodePool, node-count set-size and waitCluster, in this order,
\* each exactly when the new master version / node version / node count is
\* non-empty / non-zero.  Stated for the calls in which nothing fails (the
\* info holds a restorable state, the options decode): such an Update has
\* issued exactly these calls when it returns nil.
ExpectedUpdateCalls(new) ==
    (IF new.MasterVersion # "" THEN <<"Clusters.Update", "waitCluster">> ELSE <<>>)
    \o (IF new.NodeVersion # "" THEN <<"NodePools.Update", "waitNodePool">> ELSE <<>>)
    \o (IF new.NodeCount # 0 THEN <<"NodePools.SetSize", "waitCluster">> ELSE <<>>)
C9_UpdateSubOperationsInOrder ==
    (/\ lastOp.op = "Update"
     /\ getState(info).err = ""
     /\ getStateFromOpts(opts).err = "") =>
        /\ lastOp.err = ""
        /\ lastOp.calls = ExpectedUpdateCalls(getStateFromOpts(opts).state)

\* C10 as stated: storeState followed by getState succeeds and returns a
\* record equal to the decoded one in every field.
C10_RoundTripExact ==
    (stored /\ restoredFrom = "stored") =>
        /\ restoredErr = ""
        /\ restored = st

\* C10 amended: the round trip succeeds and reproduces every field, except
\* that an empty map comes back as a nil map: ClusterInfo.Metadata always,
\* NodeConfig.Labels when no label was parsed.
NilIfEmpty(m) == IF ~m.isNil /\ DOMAIN m.kv = {} THEN NilMap ELSE m
EmptyMapsAsNil(s) ==
    [s EXCEPT !.NodeConfig.Labels = NilIfEmpty(@),
              !.ClusterInfo.Metadata = NilIfEmpty(@)]
C10_RoundTripUpToNilMaps ==
    (stored /\ restoredFrom = "stored") =>
        /\ restoredErr = ""
        /\ restored = EmptyMapsAsNil(st)
        /\ restored.ClusterInfo.Metadata = NilMap
        /\ MetadataText(info, "project-id") = JStr(st.ProjectID)
        /\ MetadataText(info, "zone") = JStr(st.Zone)

\* The record decoded from the bag populating every field went through
\* storeState and getState.
C10_Witness ==
    /\ opts = FullBag
    /\ stored /\ restoredFrom = "stored"
    /\ restored.NodeConfig.Labels = MakeMap([k \in {<<"a">>} |-> <<"b">>])
    /\ restored.CredentialContent = "{key}"
    /\ restored.EnableNetworkPolicyConfig = "false"
    /\ restored.NodeCount = 3

(***************************************************************************)
(* Claims about generateClusterCreateRequest                               *)
(***************************************************************************)
\* The option keys that set each add-on toggle of the state.
HTTPLoadBalancingKeys == <<"enable-http-load-balancing", "enableHttpLoadBalancing">>
DashboardKeys == <<"kubernetes-dashboard", "enableKubernetesDashboard">>
Given(keys) == \E i \in DOMAIN keys : keys[i] \in DOMAIN opts.BoolOptions

\* C11: in the request built from a decoded state, the Disabled flag of the
\* HTTP load balancing, horizontal pod autoscaling and network policy add-ons
\* is true exactly when the state's toggle is explicitly false (so an unset
\* toggle gives Disabled = false), and the Disabled flag of the dashboard
\* add-on is the negation of the plain boolean EnableKubernetesDashboard (so
\* an absent dashboard option gives Disabled = true).
C11_AddonFlagsFollowToggles ==
    request # NoRequest =>
        LET addons == request.AddonsConfig
        IN  /\ addons.HttpLoadBalancing.Disabled
                = (st.EnableHTTPLoadBalancing = "false")
            /\ addons.HorizontalPodAutoscaling.Disabled
                = (st.EnableHorizontalPodAutoscaling = "false")
            /\ addons.NetworkPolicyConfig.Disabled
                = (st.EnableNetworkPolicyConfig = "false")
            /\ addons.KubernetesDashboard.Disabled
                = ~st.EnableKubernetesDashboard
            /\ ~Given(DashboardKeys) => addons.KubernetesDashboard.Disabled

\* A request built from options that leave the HTTP load balancing toggle and
\* the dashboard option out while turning network policy off explicitly.
C11_Witness ==
    /\ request # NoRequest
    /\ ~Given(HTTPLoadBalancingKeys)
    /\ ~Given(DashboardKeys)
    /\ st.EnableHTTPLoadBalancing = "nil"
    /\ st.EnableNetworkPolicyConfig = "false"
    /\ ~request.AddonsConfig.HttpLoadBalancing.Disabled
    /\ request.AddonsConfig.NetworkPolicyConfig.Disabled
    /\ request.AddonsConfig.KubernetesDashboard.Disabled

====
